---- MODULE Spec2Model ----
(***************************************************************************)
(* Model of src/main.py: the Telegram handler handle_document and the      *)
(* three agents it drives per page (gemini_browser_extract,                *)
(* gemini_api_extract, chatgpt_verify), the per-record output              *)
(* send_formatted_output and the log channel send_log.                     *)
(*                                                                         *)
(* One run of handle_document is modelled; the program counter pc is the   *)
(* await point the coroutine is suspended at.  Page indices are 0-based    *)
(* as in enumerate(images).  External calls (Telegram, Playwright, the     *)
(* Gemini API, PIL) either return or raise; which one is chosen by \E.     *)
(* An agent's response is a text, modelled as a sequence of tokens: the    *)
(* two fence markers the code strips, the list brackets, and one token     *)
(* per JSON object (a record).  Commas are not modelled.                   *)
(*                                                                         *)
(* log holds the messages handed to send_log since the last page boundary  *)
(* (it restarts when an iteration starts and when the loop is left); out,  *)
(* calls, okA, outcome and finals are history variables over the whole     *)
(* run.  The names of one iteration (raw_data, final_data, e, api_e) are   *)
(* cleared where the iteration ends, since the code rebinds them before    *)
(* it reads them again.                                                    *)
(***************************************************************************)
EXTENDS Integers, Sequences, FiniteSets, TLC

\* ---------------------------------------------------------------- bounds
MaxPages == 2
MaxBody == 4

\* ------------------------------------------------------------- constants
ALLOWED_USER == 1
Users == {ALLOWED_USER, 2}

\* str(e)[:50] and the prefix "Gemini Browser Failed: " (23 characters)
CauseSlice == 50
PrefixLen == 23
\* lengths of the text of an exception raised by an external call
ErrTextLens == {20, 80}
\* length of the text of a json.JSONDecodeError
ParseErrLen == 40
\* ------------------------------------------------------------ responses
\* the marker of an opening json code fence, and the bare code-fence marker
FenceJson == "fence_json"
Fence == "fence"
LBr == "["
RBr == "]"

\* one token per JSON object an agent can answer with
RecsOf(agent) ==
  CASE agent = "A" -> {"a1", "a2"}
    [] agent = "B" -> {"b1"}
    [] OTHER -> {"c1"}

AllRecs == RecsOf("A") \cup RecsOf("B") \cup RecsOf("C")

BoundedSeq(S, n) == UNION {[1..m -> S] : m \in 0..n}

\* the texts between the fences: brackets are not nested, and an object
\* of the answer occurs once
Bodies(agent) ==
  {b \in BoundedSeq({LBr, RBr} \cup RecsOf(agent), MaxBody) :
     /\ \A j \in 2..Len(b) : b[j] # LBr
     /\ \A j, h \in 1..Len(b) :
          (j # h /\ b[j] \in RecsOf(agent)) => b[j] # b[h]}

Texts(agent) ==
  {pre \o b \o suf : pre \in {<<>>, <<FenceJson>>},
                     b \in Bodies(agent),
                     suf \in {<<>>, <<Fence>>}}

\* a parsed JSON value: a list of records, or a single object
ListVal(s) == [kind |-> "list", recs |-> s]
DictVal(r) == [kind |-> "dict", recs |-> <<r>>]
NoVal == [kind |-> "none", recs |-> <<>>]

IsFence(t) == t \in {FenceJson, Fence}

\* text.replace(FenceJson, "").replace(Fence, "")
StripFences(text) == SelectSeq(text, LAMBDA t : ~IsFence(t))

Middle(s) == SubSeq(s, 2, Len(s) - 1)

\* json.loads: the value, or a JSONDecodeError
JsonLoads(s) ==
  IF Len(s) = 1 /\ s[1] \in AllRecs
    THEN [ok |-> TRUE, val |-> DictVal(s[1])]
  ELSE IF /\ Len(s) >= 2
          /\ s[1] = LBr
          /\ s[Len(s)] = RBr
          /\ \A j \in 2..(Len(s) - 1) : s[j] \in AllRecs
    THEN [ok |-> TRUE, val |-> ListVal(Middle(s))]
  ELSE [ok |-> FALSE, val |-> NoVal]

\* the result of one extraction agent invocation, as handle_document sees it
NoRes == [st |-> "none", val |-> NoVal, cause |-> 0]
Returned(v) == [st |-> "ok", val |-> v, cause |-> 0]
Raised(n) == [st |-> "fail", val |-> NoVal, cause |-> n]

Min(a, b) == IF a < b THEN a ELSE b

\* Exception(f"Gemini Browser Failed: {str(e)[:50]}")
Truncated(n) == PrefixLen + Min(n, CauseSlice)

\* ---------------------------------------------------------------- state
VARIABLES
  pc,            \* await point of handle_document
  user,          \* update.effective_user.id
  pdf,           \* temp.pdf exists
  N,             \* len(images)
  i,             \* loop index of enumerate(images)
  imgs,          \* the i for which page_i.jpg exists
  browser,       \* the Playwright session of the running agent
  resA,          \* outcome of gemini_browser_extract for page i
  resB,          \* outcome of gemini_api_extract for page i
  raw_data,
  initial_data,  \* argument of chatgpt_verify
  final_data,
  k,             \* position of send_formatted_output in data_list
  log,           \* messages handed to send_log since the last page boundary
  delivered,     \* whether the last send_log call got its message to the chat
  okA,           \* pages for which gemini_browser_extract returned
  vfail,         \* an exception was raised inside the try of chatgpt_verify
  out,           \* record messages delivered by send_formatted_output
  calls,         \* agent invocations, in order
  outcome,       \* per page: how its loop iteration ended
  finals         \* per page: the value chatgpt_verify returned for it

vars == <<pc, okA, vfail, user, pdf, N, i, imgs, browser, resA, resB, raw_data,
          initial_data, final_data, k, log, delivered, out, calls, outcome,
          finals>>

Pages == 0..(MaxPages - 1)

Init ==
  /\ pc = "idle"
  /\ user = 0
  /\ pdf = FALSE
  /\ N = 0
  /\ i = 0
  /\ imgs = {}
  /\ browser = "none"
  /\ resA = NoRes
  /\ resB = NoRes
  /\ raw_data = NoVal
  /\ initial_data = NoVal
  /\ final_data = NoVal
  /\ k = 0
  /\ log = <<>>
  /\ delivered = TRUE
  /\ okA = {}
  /\ vfail = FALSE
  /\ out = <<>>
  /\ calls = <<>>
  /\ outcome = [p \in Pages |-> "none"]
  /\ finals = [p \in Pages |-> NoVal]

\* ------------------------------------------------------------- send_log
Event(sev, msg, page) == [sev |-> sev, msg |-> msg, page |-> page]

\* send_log: the message is handed to the bot; a delivery that raises is
\* caught inside send_log (line 50), so the call always returns
send_log(msg, is_error, page) ==
  /\ log' = Append(log, Event(IF is_error THEN "error" ELSE "info", msg, page))
  /\ delivered' \in BOOLEAN

Call(agent, page) == [agent |-> agent, page |-> page]

\* ------------------------------------------------------ handle_document
\* Receive without the comparison of line 198: every requester is served
Receive_NoCheck ==
  /\ pc = "idle"
  /\ \E u \in Users : user' = u
  /\ pc' = "download"
  /\ send_log("received", FALSE, -1)
  /\ UNCHANGED <<okA, vfail, pdf, N, i, imgs, browser, resA, resB, raw_data, initial_data,
                 final_data, k, out, calls, outcome, finals>>

\* line 198-200: the requester check and the first log line
Receive ==
  /\ pc = "idle"
  /\ \E u \in Users :
       /\ user' = u
       /\ IF u # ALLOWED_USER
            THEN /\ pc' = "returned"
                 /\ UNCHANGED <<log, delivered>>
            ELSE /\ pc' = "download"
                 /\ send_log("received", FALSE, -1)
  /\ UNCHANGED <<okA, vfail, pdf, N, i, imgs, browser, resA, resB, raw_data, initial_data,
                 final_data, k, out, calls, outcome, finals>>

\* line 202-204: get_file and download_to_drive, outside the try block
Download ==
  /\ pc = "download"
  /\ \/ /\ pdf' = TRUE
        /\ pc' = "convert"
     \/ /\ pdf' \in BOOLEAN
        /\ pc' = "raised"
  /\ UNCHANGED <<okA, vfail, user, N, i, imgs, browser, resA, resB, raw_data, initial_data,
                 final_data, k, log, delivered, out, calls, outcome, finals>>

\* line 207: convert_from_path
Convert ==
  /\ pc = "convert"
  /\ \/ /\ \E n \in 1..MaxPages : N' = n
        /\ pc' = "loop"
     \/ /\ N' = N
        /\ pc' = "critical"
  /\ i' = 0
  /\ UNCHANGED <<okA, vfail, user, pdf, imgs, browser, resA, resB, raw_data, initial_data,
                 final_data, k, log, delivered, out, calls, outcome, finals>>

\* line 209-216: the next image is saved as page_i.jpg and announced
SavePage ==
  /\ pc = "loop"
  /\ i < N
  /\ \/ /\ imgs' = imgs \cup {i}
        /\ log' = <<Event("info", "processing", i)>>
        /\ delivered' \in BOOLEAN
        /\ raw_data' = ListVal(<<>>)
        /\ outcome' = [outcome EXCEPT ![i] = "started"]
        /\ pc' = "primary"
     \/ /\ imgs' \in {imgs, imgs \cup {i}}
        /\ raw_data' = raw_data
        /\ outcome' = [outcome EXCEPT ![i] = "unsaved"]
        /\ pc' = "critical"
        /\ UNCHANGED <<log, delivered>>
  /\ UNCHANGED <<okA, vfail, user, pdf, N, i, browser, resA, resB, initial_data,
                 final_data, k, out, calls, finals>>

\* line 238: the loop is exhausted
LoopEnd ==
  /\ pc = "loop"
  /\ i >= N
  /\ log' = <<Event("info", "all_processed", -1)>>
  /\ delivered' \in BOOLEAN
  /\ pc' = "finally"
  /\ UNCHANGED <<okA, vfail, user, pdf, N, i, imgs, browser, resA, resB, raw_data,
                 initial_data, final_data, k, out, calls, outcome, finals>>

\* ----------------------------------------------- gemini_browser_extract
\* PrimaryExcept with neither browser.close() nor the async with block
PrimaryExcept_LeavesOpen(n) ==
  /\ \/ resA' = Raised(Truncated(n))
     \/ \E m \in ErrTextLens : resA' = Raised(m)
  /\ browser' = browser
  /\ pc' = "primary_done"

\* line 97-99: the handler closes the browser and raises the truncated
\* cause; an exception of browser.close() in the handler replaces it, and
\* the session then ends with the async with block of line 58
PrimaryExcept(n) ==
  /\ \/ resA' = Raised(Truncated(n))
     \/ \E m \in ErrTextLens : resA' = Raised(m)
  /\ browser' = "closed"
  /\ pc' = "primary_done"

\* line 56-61: the launch is outside the try block.  When launch() raises
\* there is no session; when new_context() or new_page() raises there is one
\* and no handler closes it: it ends with the exit of the async with block
\* of line 58, which stops the Playwright driver and the browsers it started
PrimaryLaunch ==
  /\ pc = "primary"
  /\ send_log("agentA_launch", FALSE, i)
  /\ calls' = Append(calls, Call("A", i))
  /\ \/ /\ browser' = "open"
        /\ pc' = "primary_session"
        /\ resA' = resA
     \/ /\ \E n \in ErrTextLens : resA' = Raised(n)
        /\ browser' \in {browser, "closed"}
        /\ pc' = "primary_done"
  /\ UNCHANGED <<okA, vfail, user, pdf, N, i, imgs, resB, raw_data, initial_data,
                 final_data, k, out, outcome, finals>>

\* line 65-74: the login
PrimaryLogin ==
  /\ pc = "primary_session"
  /\ \/ /\ send_log("agentA_login", FALSE, i)
        /\ pc' = "primary_loggedin"
        /\ UNCHANGED <<browser, resA>>
     \/ /\ \E n \in ErrTextLens : PrimaryExcept(n)
        /\ UNCHANGED <<log, delivered>>
  /\ UNCHANGED <<okA, vfail, user, pdf, N, i, imgs, resB, raw_data, initial_data,
                 final_data, k, out, calls, outcome, finals>>

\* line 77-95: upload, prompt, scrape, close, parse
PrimaryScrape ==
  /\ pc = "primary_loggedin"
  /\ \/ \E n \in ErrTextLens : PrimaryExcept(n)
     \/ \E text \in Texts("A") :
          LET r == JsonLoads(StripFences(text)) IN
            \/ /\ r.ok
               /\ resA' = Returned(r.val)
               /\ browser' = "closed"
               /\ pc' = "primary_done"
            \/ /\ ~r.ok
               /\ PrimaryExcept(ParseErrLen)
            \/ \E n \in ErrTextLens : PrimaryExcept(n)
  /\ UNCHANGED <<okA, vfail, user, pdf, N, i, imgs, resB, raw_data, initial_data,
                 final_data, k, log, delivered, out, calls, outcome, finals>>

\* AfterPrimary with the fallback taken whatever the primary returned
AfterPrimary_AlwaysFallback ==
  /\ pc = "primary_done"
  /\ IF resA.st = "ok"
       THEN /\ raw_data' = resA.val
            /\ okA' = okA \cup {i}
            /\ send_log("source_web", FALSE, i)
       ELSE /\ raw_data' = raw_data
            /\ okA' = okA
            /\ send_log("agentA_failed", TRUE, i)
  /\ pc' = "secondary"
  /\ UNCHANGED <<vfail, user, pdf, N, i, imgs, browser, resA, resB,
                 initial_data, final_data, k, out, calls, outcome, finals>>

\* AfterPrimary that falls back without the message of line 221
AfterPrimary_SilentFallback ==
  /\ pc = "primary_done"
  /\ IF resA.st = "ok"
       THEN /\ raw_data' = resA.val
            /\ okA' = okA \cup {i}
            /\ send_log("source_web", FALSE, i)
            /\ pc' = "verify"
       ELSE /\ raw_data' = raw_data
            /\ okA' = okA
            /\ UNCHANGED <<log, delivered>>
            /\ pc' = "secondary"
  /\ UNCHANGED <<vfail, user, pdf, N, i, imgs, browser, resA, resB, initial_data,
                 final_data, k, out, calls, outcome, finals>>

\* line 217-221: the result of the primary agent
AfterPrimary ==
  /\ pc = "primary_done"
  /\ IF resA.st = "ok"
       THEN /\ raw_data' = resA.val
            /\ okA' = okA \cup {i}
            /\ send_log("source_web", FALSE, i)
            /\ pc' = "verify"
       ELSE /\ raw_data' = raw_data
            /\ okA' = okA
            /\ send_log("agentA_failed", TRUE, i)
            /\ pc' = "secondary"
  /\ UNCHANGED <<vfail, user, pdf, N, i, imgs, browser, resA, resB, initial_data,
                 final_data, k, out, calls, outcome, finals>>

\* --------------------------------------------------- gemini_api_extract
\* gemini_api_extract awaiting, with no deadline at all, an answer that
\* never comes
gemini_api_extract_Hangs ==
  /\ pc = "secondary"
  /\ FALSE
  /\ UNCHANGED vars

\* line 102-125: no handler, every exception leaves the function as it is
gemini_api_extract ==
  /\ pc = "secondary"
  /\ send_log("agentB_switch", FALSE, i)
  /\ calls' = Append(calls, Call("B", i))
  /\ \/ \E n \in ErrTextLens : resB' = Raised(n)
     \/ \E text \in Texts("B") :
          LET r == JsonLoads(StripFences(text)) IN
            resB' = IF r.ok THEN Returned(r.val) ELSE Raised(ParseErrLen)
  /\ pc' = "secondary_done"
  /\ UNCHANGED <<okA, vfail, user, pdf, N, i, imgs, browser, resA, raw_data, initial_data,
                 final_data, k, out, outcome, finals>>

\* AfterSecondary with the result of the secondary agent not assigned
AfterSecondary_KeepsRaw ==
  /\ pc = "secondary_done"
  /\ IF resB.st = "ok"
       THEN /\ raw_data' = raw_data
            /\ send_log("source_api", FALSE, i)
            /\ pc' = "verify"
            /\ UNCHANGED <<i, resB, outcome>>
       ELSE /\ send_log("fatal_skip", TRUE, i)
            /\ outcome' = [outcome EXCEPT ![i] = "failed"]
            /\ i' = i + 1
            /\ raw_data' = NoVal
            /\ resB' = NoRes
            /\ pc' = "loop"
  /\ resA' = NoRes
  /\ UNCHANGED <<okA, vfail, user, pdf, N, imgs, browser, initial_data,
                 final_data, k, out, calls, finals>>

\* AfterSecondary with break in the place of continue
AfterSecondary_Breaks ==
  /\ pc = "secondary_done"
  /\ IF resB.st = "ok"
       THEN /\ raw_data' = resB.val
            /\ send_log("source_api", FALSE, i)
            /\ pc' = "verify"
            /\ UNCHANGED <<i, resB, outcome>>
       ELSE /\ send_log("fatal_skip", TRUE, i)
            /\ outcome' = [outcome EXCEPT ![i] = "failed"]
            /\ i' = i + 1
            /\ raw_data' = NoVal
            /\ resB' = NoRes
            /\ pc' = "finally"
  /\ resA' = NoRes
  /\ UNCHANGED <<okA, vfail, user, pdf, N, imgs, browser, initial_data,
                 final_data, k, out, calls, finals>>

\* AfterSecondary without the continue of line 228
AfterSecondary_NoContinue ==
  /\ pc = "secondary_done"
  /\ IF resB.st = "ok"
       THEN /\ raw_data' = resB.val
            /\ send_log("source_api", FALSE, i)
       ELSE /\ raw_data' = raw_data
            /\ send_log("fatal_skip", TRUE, i)
  /\ pc' = "verify"
  /\ resA' = NoRes
  /\ UNCHANGED <<okA, vfail, user, pdf, N, i, imgs, browser, resB, initial_data,
                 final_data, k, out, calls, outcome, finals>>

\* line 223-228: the result of the secondary agent; the exceptions e and
\* api_e are unbound when their handlers end, and raw_data is rebound at
\* line 216 before it is read again
AfterSecondary ==
  /\ pc = "secondary_done"
  /\ IF resB.st = "ok"
       THEN /\ raw_data' = resB.val
            /\ send_log("source_api", FALSE, i)
            /\ pc' = "verify"
            /\ UNCHANGED <<i, resB, outcome>>
       ELSE /\ send_log("fatal_skip", TRUE, i)
            /\ outcome' = [outcome EXCEPT ![i] = "failed"]
            /\ i' = i + 1
            /\ raw_data' = NoVal
            /\ resB' = NoRes
            /\ pc' = "loop"
  /\ resA' = NoRes
  /\ UNCHANGED <<okA, vfail, user, pdf, N, imgs, browser, initial_data,
                 final_data, k, out, calls, finals>>

\* ------------------------------------------------------- chatgpt_verify
\* the text of a JSON list
Render(v) == <<LBr>> \o v.recs \o <<RBr>>

\* what the ChatGPT page can answer: any text, or the candidates unchanged
VerifyTexts(v) ==
  Texts("C") \cup (IF v.kind = "list" THEN {Render(v)} ELSE {})

\* an exception leaves chatgpt_verify: it reaches the handler of line 240
VerifyRaises ==
  /\ pc' = "critical"
  /\ outcome' = [outcome EXCEPT ![i] = "verify_raised"]
  /\ UNCHANGED <<final_data, finals>>

\* line 172-175: the handler closes the browser, logs and returns
\* initial_data; an exception of browser.close() leaves the function
VerifyExcept ==
  /\ browser' = "closed"
  /\ vfail' = TRUE
  /\ \/ /\ send_log("verify_failed", TRUE, i)
        /\ final_data' = initial_data
        /\ finals' = [finals EXCEPT ![i] = initial_data]
        /\ outcome' = outcome
        /\ pc' = "output"
     \/ /\ VerifyRaises
        /\ UNCHANGED <<log, delivered>>

\* line 130-134: the launch is outside the try block; a session that
\* new_page() leaves behind ends with the async with block of line 132
VerifyLaunch ==
  /\ pc = "verify"
  /\ initial_data' = raw_data
  /\ send_log("agentC_verify", FALSE, i)
  /\ calls' = Append(calls, Call("C", i))
  /\ \/ /\ browser' = "open"
        /\ pc' = "verify_session"
        /\ UNCHANGED <<final_data, finals, outcome>>
     \/ /\ browser' \in {browser, "closed"}
        /\ VerifyRaises
  /\ UNCHANGED <<okA, vfail, user, pdf, N, i, imgs, resA, resB, raw_data, k, out>>

\* line 136-170 and line 231: login, upload, prompt, scrape, close, parse
VerifySession ==
  /\ pc = "verify_session"
  /\ \/ VerifyExcept
     \/ \E text \in VerifyTexts(initial_data) :
          LET r == JsonLoads(StripFences(text)) IN
            \/ /\ r.ok
               /\ browser' = "closed"
               /\ final_data' = r.val
               /\ finals' = [finals EXCEPT ![i] = r.val]
               /\ pc' = "output"
               /\ UNCHANGED <<log, delivered, outcome, vfail>>
            \/ /\ ~r.ok
               /\ VerifyExcept
            \/ VerifyExcept
  /\ UNCHANGED <<okA, user, pdf, N, i, imgs, resA, resB, raw_data, initial_data,
                 k, out, calls>>

\* ------------------------------------------------ send_formatted_output
\* a send_log whose delivery raises inside an action, with the exception
\* leaving send_log: the run would land in the handler of line 240
OutputStart_LogRaises ==
  /\ pc = "output"
  /\ send_log("sending", FALSE, i)
  /\ IF delivered'
     THEN /\ k' = 1
          /\ pc' = "sending"
          /\ UNCHANGED outcome
     ELSE /\ k' = k
          /\ pc' = "critical"
          /\ outcome' = [outcome EXCEPT ![i] = "output_raised"]
  /\ UNCHANGED <<okA, vfail, user, pdf, N, i, imgs, browser, resA, resB,
                 raw_data, initial_data, final_data, out, calls, finals>>

\* line 180: len(data_list) and the log line
OutputStart ==
  /\ pc = "output"
  /\ send_log("sending", FALSE, i)
  /\ k' = 1
  /\ pc' = "sending"
  /\ UNCHANGED <<okA, vfail, user, pdf, N, i, imgs, browser, resA, resB, raw_data,
                 initial_data, final_data, out, calls, outcome, finals>>

Sent(page, rec) == [page |-> page, rec |-> rec]

\* SendItem with the message put in front of the earlier ones
SendItem_Prepends ==
  /\ pc = "sending"
  /\ k <= Len(final_data.recs)
  /\ \/ /\ final_data.kind = "list"
        /\ out' = <<Sent(i, final_data.recs[k])>> \o out
        /\ k' = k + 1
        /\ UNCHANGED <<pc, outcome>>
     \/ /\ pc' = "critical"
        /\ outcome' = [outcome EXCEPT ![i] = "output_raised"]
        /\ UNCHANGED <<out, k>>
  /\ UNCHANGED <<okA, vfail, user, pdf, N, i, imgs, browser, resA, resB, raw_data,
                 initial_data, final_data, log, delivered, calls, finals>>

\* line 182-194: one message per item; iterating a dict yields its keys,
\* and str has no get
SendItem ==
  /\ pc = "sending"
  /\ k <= Len(final_data.recs)
  /\ \/ /\ final_data.kind = "list"
        /\ out' = Append(out, Sent(i, final_data.recs[k]))
        /\ k' = k + 1
        /\ UNCHANGED <<pc, outcome>>
     \/ /\ pc' = "critical"
        /\ outcome' = [outcome EXCEPT ![i] = "output_raised"]
        /\ UNCHANGED <<out, k>>
  /\ UNCHANGED <<okA, vfail, user, pdf, N, i, imgs, browser, resA, resB, raw_data,
                 initial_data, final_data, log, delivered, calls, finals>>

\* line 236: the image is removed and the loop moves on; the names of the
\* iteration are rebound (line 216, 218, 231) before they are read again
PageDone ==
  /\ pc = "sending"
  /\ k > Len(final_data.recs)
  /\ imgs' = imgs \ {i}
  /\ outcome' = [outcome EXCEPT ![i] = "done"]
  /\ i' = i + 1
  /\ k' = 0
  /\ raw_data' = NoVal
  /\ initial_data' = NoVal
  /\ final_data' = NoVal
  /\ resA' = NoRes
  /\ resB' = NoRes
  /\ vfail' = FALSE
  /\ pc' = "loop"
  /\ UNCHANGED <<okA, user, pdf, N, browser, log, delivered, out, calls,
                 finals>>

\* Critical with the removal of temp.pdf at the end of the try block and
\* no finally clause: the handler is the last thing that runs
Critical_NoFinally ==
  /\ pc = "critical"
  /\ log' = <<Event("error", "critical", -1)>>
  /\ delivered' \in BOOLEAN
  /\ raw_data' = NoVal
  /\ initial_data' = NoVal
  /\ final_data' = NoVal
  /\ resA' = NoRes
  /\ resB' = NoRes
  /\ vfail' = FALSE
  /\ pc' = "returned"
  /\ UNCHANGED <<okA, user, pdf, N, i, imgs, browser, k, out, calls, outcome,
                 finals>>

\* line 240-241: the handler around the whole loop; the names of the
\* iteration are not read again
Critical ==
  /\ pc = "critical"
  /\ log' = <<Event("error", "critical", -1)>>
  /\ delivered' \in BOOLEAN
  /\ raw_data' = NoVal
  /\ initial_data' = NoVal
  /\ final_data' = NoVal
  /\ resA' = NoRes
  /\ resB' = NoRes
  /\ vfail' = FALSE
  /\ pc' = "finally"
  /\ UNCHANGED <<okA, user, pdf, N, i, imgs, browser, k, out, calls, outcome,
                 finals>>

\* line 242-243
Finally ==
  /\ pc = "finally"
  /\ pdf' = FALSE
  /\ pc' = "returned"
  /\ UNCHANGED <<okA, vfail, user, N, i, imgs, browser, resA, resB, raw_data,
                 initial_data, final_data, k, log, delivered, out, calls,
                 outcome, finals>>

Next ==
  \/ Receive
  \/ Download
  \/ Convert
  \/ SavePage
  \/ LoopEnd
  \/ PrimaryLaunch
  \/ PrimaryLogin
  \/ PrimaryScrape
  \/ AfterPrimary
  \/ gemini_api_extract
  \/ AfterSecondary
  \/ VerifyLaunch
  \/ VerifySession
  \/ OutputStart
  \/ SendItem
  \/ PageDone
  \/ Critical
  \/ Finally

Spec == Init /\ [][Next]_vars

\* the handler is one asyncio task: once the call it awaits has returned or
\* raised, the task is resumed.  Every awaited call is taken to end: the
\* waits of lines 65, 73, 81, 91, 143 and 166 carry a timeout argument, the
\* other Playwright, Telegram and Gemini calls run under the deadlines of
\* their libraries
FairSpec == Spec /\ WF_vars(Next)

TypeOK ==
  /\ pc \in {"idle", "download", "convert", "loop", "primary",
             "primary_session", "primary_loggedin", "primary_done",
             "secondary", "secondary_done", "verify", "verify_session",
             "output", "sending", "critical", "finally", "returned", "raised"}
  /\ N \in 0..MaxPages
  /\ i \in 0..N
  /\ imgs \subseteq Pages
  /\ browser \in {"none", "open", "closed"}
  /\ okA \subseteq Pages

\* ================================================================ claims
Called(agent, page) == \E j \in 1..Len(calls) : calls[j] = Call(agent, page)

\* the pages an agent was invoked for, in the order of the invocations
CallPages(agent) ==
  LET c == SelectSeq(calls, LAMBDA x : x.agent = agent)
  IN  [j \in 1..Len(c) |-> c[j].page]

Logged(msg, page) ==
  \E j \in 1..Len(log) : log[j].msg = msg /\ log[j].page = page

\* the records delivered for a page, in the order of delivery
PageOut(page) ==
  LET c == SelectSeq(out, LAMBDA x : x.page = page)
  IN  [j \in 1..Len(c) |-> c[j].rec]

Processed(p) == outcome[p] \in {"done", "failed"}
Crashed(p) == outcome[p] \in {"unsaved", "verify_raised", "output_raised"}
Ended(p) == Processed(p) \/ outcome[p] \in {"verify_raised", "output_raised"}

\* C1: a page whose primary agent returned never has the secondary agent
\* invoked for it; the secondary agent is invoked for a page only after the
\* primary agent was invoked for that page and its failure was seen.
C1_NoSecondaryAfterPrimarySuccess ==
  /\ \A p \in okA : ~Called("B", p)
  /\ \A j \in 1..Len(calls) :
       calls[j].agent = "B" =>
         /\ calls[j].page \notin okA
         /\ \E h \in 1..(j - 1) : calls[h] = Call("A", calls[j].page)
  /\ pc \in {"secondary", "secondary_done"} =>
       /\ resA.st = "fail"
       /\ Logged("agentA_failed", i)

\* a run that ended with page 0 taken from the primary agent and page 1
\* from the fallback
C1_Witness ==
  /\ pc = "returned"
  /\ 0 \in okA
  /\ outcome[0] = "done"
  /\ Called("A", 1)
  /\ Called("B", 1)

\* C2: when the primary agent failed and the secondary agent returned, the
\* value handed to chatgpt_verify is the value the secondary agent
\* returned, the value sent out is that value or the answer of the
\* verification, and no record of the primary agent is sent for the page.
C2_SecondaryOutputIsUsed ==
  /\ \A j \in 1..Len(out) :
       Called("B", out[j].page) => out[j].rec \notin RecsOf("A")
  /\ (resB.st = "ok" /\ pc \in {"verify", "verify_session", "output", "sending"}) =>
       /\ resA.st # "ok"
       /\ raw_data = resB.val
       /\ pc # "verify" => initial_data = resB.val
       /\ pc \in {"output", "sending"} =>
            /\ \/ final_data = resB.val
               \/ \A j \in 1..Len(final_data.recs) :
                    final_data.recs[j] \in RecsOf("C")
            /\ PageOut(i) = SubSeq(final_data.recs, 1, k - 1)

\* the record of the secondary agent has just been sent for the page
C2_Witness ==
  /\ pc = "sending"
  /\ resB.st = "ok"
  /\ Called("A", i)
  /\ k = 2
  /\ final_data = resB.val
  /\ PageOut(i) = <<"b1">>

\* C3: a page for which both extraction agents failed has no record in the
\* output and no verified value; the pages before it were processed, the
\* loop has moved past it, and at the end of the run a page after it is
\* unprocessed only behind an exception raised for another page.
C3_BothFailedPageIsSkipped ==
  \A p \in 0..(N - 1) :
    outcome[p] = "failed" =>
      /\ PageOut(p) = <<>>
      /\ finals[p] = NoVal
      /\ ~Called("C", p)
      /\ \A q \in 0..(p - 1) : Processed(q)
      /\ i > p
      /\ pc = "returned" =>
           \A q \in (p + 1)..(N - 1) :
             Processed(q) \/ \E c \in (p + 1)..q : Crashed(c)

\* a run of two pages: both agents failed for the first, the second was
\* extracted, verified and sent
C3_Witness ==
  /\ pc = "returned"
  /\ N = 2
  /\ outcome[0] = "failed"
  /\ outcome[1] = "done"
  /\ PageOut(1) # <<>>

\* every agent of the page in progress answered with a list
OnlyLists ==
  /\ raw_data.kind # "dict"
  /\ final_data.kind # "dict"

\* C4: at the end of a run over N pages whose images were all saved (and
\* whose agents answered with lists), the primary agent was invoked for the
\* pages 0..N-1, once each, in that order.
C4_EveryPageStarted ==
  (/\ pc = "returned"
   /\ N >= 1
   /\ OnlyLists
   /\ \A p \in 0..(N - 1) : outcome[p] # "unsaved")
    => CallPages("A") = [j \in 1..N |-> j - 1]

\* C5: when an exception left the verification or the output of a page, an
\* error event is emitted and the pages after it are still processed.
C5_ExceptionDoesNotAbortRun ==
  (pc = "returned" /\ OnlyLists) =>
    \A p \in 0..(N - 1) :
      outcome[p] \in {"verify_raised", "output_raised"} =>
        /\ Logged("critical", -1)
        /\ \A q \in (p + 1)..(N - 1) : Ended(q)

\* C6: whenever an exception was raised inside chatgpt_verify, the failure
\* event is emitted and the value of the page is the candidate list it was
\* given.
C6_VerifyFailureReturnsCandidates ==
  (vfail /\ OnlyLists) =>
    /\ Logged("verify_failed", i)
    /\ final_data = initial_data

\* C7: no exception leaves chatgpt_verify, so verification never ends the
\* processing of a page that was extracted.
C7_VerifyNeverRaises ==
  OnlyLists => \A p \in Pages : outcome[p] # "verify_raised"

\* C8: once the processing of a page has ended, on any path, its image
\* file does not exist.
C8_ImageRemovedOnEveryPath ==
  \A p \in Pages : Ended(p) => p \notin imgs

\* C9: an agent answer that is not a list is a failure of the invocation
\* and never becomes the records of the page.
C9_NonListIsFailure ==
  /\ raw_data.kind # "dict"
  /\ resA.st = "ok" => resA.val.kind = "list"
  /\ resB.st = "ok" => resB.val.kind = "list"

\* the records a page has contributed to the output so far
OutOf(p) ==
  IF outcome[p] = "done"
    THEN finals[p].recs
  ELSE IF p = i /\ k >= 1 /\ outcome[p] \in {"started", "output_raised"}
    THEN SubSeq(finals[p].recs, 1, k - 1)
  ELSE <<>>

Tag(p, recs) == [j \in 1..Len(recs) |-> Sent(p, recs[j])]

RECURSIVE Aggregate(_)
Aggregate(p) ==
  IF p >= MaxPages THEN <<>> ELSE Tag(p, OutOf(p)) \o Aggregate(p + 1)

\* C10: the records sent out are the concatenation, in page order, of the
\* final list of every finished page (and of the part already sent of the
\* page in progress), each list in its own order.
C10_OutputInPageOrder ==
  out = Aggregate(0)

\* two records of page 0 in their order, then the record of page 1
C10_Witness ==
  /\ pc = "returned"
  /\ out = <<Sent(0, "a1"), Sent(0, "a2"), Sent(1, "b1")>>
  /\ outcome[0] = "done"
  /\ outcome[1] = "done"


\* ------------------------------------------------------------------ C11
\* a step from the current state that calls send_log with delivery outcome
\* d and ends in the given control state, invocations, page outcomes,
\* records, files, session and extraction data (the answer an agent gives
\* in the same step is the environment's choice and is left open)
LogStepTo(d, q, c, o, oc, l, im, b, rd, fd, kk, ii, pf) ==
  ENABLED ( /\ delivered' = d
            /\ pc' = q
            /\ calls' = c
            /\ out' = o
            /\ outcome' = oc
            /\ log' = l
            /\ imgs' = im
            /\ browser' = b
            /\ raw_data' = rd
            /\ final_data' = fd
            /\ k' = kk
            /\ i' = ii
            /\ pdf' = pf
            /\ Next )

\* C11: a step in which send_log is called reaches the same control state,
\* the same agent invocations, page outcomes, records and files whether the
\* delivery of its message succeeds or fails: for every such step there is
\* a step from the same state with the other delivery outcome that agrees
\* on all of them
C11_DeliveryFailureKeepsControlFlow ==
  [][ log' # log =>
        \E q \in {pc'}, c \in {calls'}, o \in {out'}, oc \in {outcome'},
           l \in {log'}, im \in {imgs'}, b \in {browser'},
           rd \in {raw_data'}, fd \in {final_data'}, kk \in {k'},
           ii \in {i'}, pf \in {pdf'}, d \in {~delivered'} :
          LogStepTo(d, q, c, o, oc, l, im, b, rd, fd, kk, ii, pf) ]_vars

\* the "Sending n verified rows" message was not delivered and the first
\* record of the page went out all the same
C11_Witness ==
  /\ pc = "sending"
  /\ k = 2
  /\ ~delivered
  /\ Len(out) >= 1


\* ------------------------------------------------------------------ C12
\* C12: a document from a requester other than ALLOWED_USER is ignored
\* without a trace: the handler has returned, no message was handed to
\* send_log, no file was downloaded or created, no agent was invoked and
\* no record was sent
C12_UnauthorizedIsIgnored ==
  (user # 0 /\ user # ALLOWED_USER) =>
    /\ pc = "returned"
    /\ log = <<>>
    /\ delivered
    /\ ~pdf
    /\ imgs = {}
    /\ browser = "none"
    /\ calls = <<>>
    /\ out = <<>>
    /\ \A p \in Pages : outcome[p] = "none"

C12_Witness ==
  /\ user \in Users \ {ALLOWED_USER}
  /\ pc = "returned"


\* ------------------------------------------------------------------ C13
Terminated == pc \in {"returned", "raised"}

DonePages == {p \in 0..(N - 1) : outcome[p] = "done"}

\* line 238: the text of the completion message is fixed, "All pages
\* processed successfully": it speaks of all N pages of the document
PagesReported == N

\* C14: the completion message at the end of a run reports the number of
\* pages that were processed to the end, not counting the pages for which
\* both extraction agents failed
C14_CompletionReportsDoneCount ==
  Logged("all_processed", -1) => PagesReported = Cardinality(DonePages)


\* ------------------------------------------------------------------ C15
\* C15: at every moment of a run at most one page image file exists: the
\* image of a page is gone before the image of the next page is written
C15_AtMostOneImage ==
  /\ Cardinality(imgs) <= 1
  /\ pc \in {"primary", "primary_session", "primary_loggedin", "primary_done",
             "secondary", "secondary_done", "verify", "verify_session",
             "output", "sending"} => imgs = {i}


\* ------------------------------------------------------------------ C16
\* position of the first message with this text for this page, 0 if none
LogPos(msg, page) ==
  IF Logged(msg, page)
    THEN CHOOSE j \in 1..Len(log) :
           /\ log[j].msg = msg /\ log[j].page = page
           /\ \A h \in 1..(j - 1) : ~(log[h].msg = msg /\ log[h].page = page)
    ELSE 0

\* C16: an exception of the primary agent stays inside the iteration of its
\* page: the iteration goes on, the error message that carries the cause
\* (line 221) is handed to send_log, and the secondary agent is invoked
\* only after that message, for the same page and with its image on disk
C16_PrimaryFailureIsContained ==
  /\ resA.st = "fail" =>
       /\ pc \in {"primary_done", "secondary", "secondary_done"}
       /\ outcome[i] = "started"
       /\ resA.cause > 0
  /\ pc = "secondary" =>
       /\ log[Len(log)] = Event("error", "agentA_failed", i)
       /\ ~Called("B", i)
       /\ i \in imgs
  /\ pc = "secondary_done" =>
       /\ LogPos("agentA_failed", i) > 0
       /\ LogPos("agentA_failed", i) < LogPos("agentB_switch", i)
       /\ calls[Len(calls)] = Call("B", i)
       /\ calls[Len(calls) - 1] = Call("A", i)
       /\ i \in imgs

\* the primary agent raised for page 1 and the secondary agent has answered
C16_Witness ==
  /\ pc = "secondary_done"
  /\ i = 1
  /\ resA.st = "fail"
  /\ resB.st = "ok"


\* ------------------------------------------------------------------ C17
\* how often an agent was invoked for a page
NumCalls(agent, page) ==
  Cardinality({j \in 1..Len(calls) : calls[j] = Call(agent, page)})

\* C17: chatgpt_verify is invoked exactly once for a page for which one of
\* the two extraction agents returned, and never for a page for which both
\* raised; when both raised an error message is handed to send_log and the
\* iteration ends with no verification and no record sent
C17_VerifyOncePerExtractedPage ==
  /\ \A p \in Pages :
       /\ NumCalls("C", p) <= 1
       /\ outcome[p] = "failed" =>
            /\ NumCalls("A", p) = 1
            /\ NumCalls("B", p) = 1
            /\ NumCalls("C", p) = 0
            /\ PageOut(p) = <<>>
       /\ outcome[p] \in {"done", "verify_raised", "output_raised"} =>
            NumCalls("C", p) = 1
       /\ Called("C", p) => outcome[p] \notin {"none", "unsaved", "failed"}
  /\ pc = "verify" =>
       /\ ~Called("C", i)
       /\ i \in okA \/ resB.st = "ok"
  /\ pc \in {"verify_session", "output", "sending"} => NumCalls("C", i) = 1
  /\ (pc = "loop" /\ i > 0 /\ outcome[i - 1] = "failed") =>
       log[Len(log)] = Event("error", "fatal_skip", i - 1)

\* page 0 was verified and delivered, page 1 has just been skipped
C17_Witness ==
  /\ pc = "loop"
  /\ i = 2
  /\ outcome[0] = "done"
  /\ outcome[1] = "failed"
  /\ NumCalls("C", 0) = 1


\* ------------------------------------------------------------------ C18
\* C18: a browser session is open only while the agent invocation that
\* launched it is under way: when gemini_browser_extract or chatgpt_verify
\* has returned or raised, on any path, the session is closed
C18_SessionClosedAfterInvocation ==
  /\ browser = "open" =>
       pc \in {"primary_session", "primary_loggedin", "verify_session"}
  /\ pc \in {"primary_session", "primary_loggedin", "verify_session"} =>
       browser = "open"

\* the primary agent raised inside its try block for page 0 and the
\* verification of page 1 raised as well: both sessions are closed
C18_Witness ==
  /\ pc = "output"
  /\ i = 1
  /\ vfail
  /\ browser = "closed"
  /\ 1 \notin okA
  /\ Called("A", 1)


\* ------------------------------------------------------------------ C19
\* the longest cause the handler of line 99 produces
CauseLimit == PrefixLen + CauseSlice

\* C19: the cause carried by a failure of the primary agent and by a
\* failure of the secondary agent is never longer than the fixed limit,
\* however long the text of the underlying error is
C19_CauseIsBounded ==
  /\ resA.st = "fail" => resA.cause <= CauseLimit
  /\ resB.st = "fail" => resB.cause <= CauseLimit


\* ------------------------------------------------------------------ C20
\* C20: temp.pdf, once download_to_drive has written it, is on disk while
\* the run works on it and is removed when the run ends, whether the loop
\* ran to its end, pages were skipped, or an exception aborted the loop
C20_PdfRemovedOnEveryExit ==
  /\ pc = "returned" => ~pdf
  /\ pc \in {"idle", "download"} => ~pdf
  /\ pc \notin {"idle", "download", "returned", "raised"} => pdf

\* a run whose loop was aborted by an exception of send_message has ended
\* and temp.pdf is gone
C20_Witness ==
  /\ pc = "returned"
  /\ ~pdf
  /\ \E p \in Pages : outcome[p] = "output_raised"

====
